---- MODULE Spec2Model ----
(***************************************************************************)
(* Client-side coordinators of the productivity dashboard:                 *)
(*   IntegrationsProvider (integration flags, status records, data caches) *)
(*   ChatProvider         (message history, thread id)                     *)
(* Every asynchronous operation is split at its awaits: one action for the *)
(* invocation (the synchronous part up to the first gateway call) and one  *)
(* action per gateway outcome (the continuation up to the next await or to *)
(* the end of the operation).  JavaScript runs each part to completion.    *)
(***************************************************************************)
EXTENDS Integers, Sequences, FiniteSets, TLC

VARIABLES
    mounted,            \* the providers are mounted (the mount effect has run)
    integrations,       \* useState<Integrations>: key -> boolean
    integrationStatus,  \* useState<IntegrationStatus[]>
    isLoading,          \* IntegrationsProvider's shared loading flag
    jiraIssues,         \* useState<any[]>
    jiraProjects,       \* useState<any[]>
    googleData,         \* useState<GoogleServiceData>: service -> any[]
    messages,           \* ChatProvider: useState<Message[]>
    chatLoading,        \* ChatProvider's isLoading
    currentThreadId,    \* ChatProvider: <<>> is null, <<t>> is the id t
    now,                \* the last value read from Date.now()
    ops,                \* the operations in flight, in invocation order
    done,               \* the operation that ended last
    before,             \* the IntegrationSet just before that operation ended
    invoked             \* the number of operations invoked so far

vars == <<mounted, integrations, integrationStatus, isLoading, jiraIssues,
          jiraProjects, googleData, messages, chatLoading, currentThreadId,
          now, ops, done, before, invoked>>

intVars == <<integrations, integrationStatus, isLoading, jiraIssues,
             jiraProjects, googleData>>

chatVars == <<messages, chatLoading, currentThreadId, now>>

-----------------------------------------------------------------------------
(* Bounds of the model *)

MaxOps == 3      \* operations invoked in one session (the mount refresh included)
MaxRecs == 2     \* records in one status response
MaxData == 1     \* records in one data response
MaxNow == 1      \* clock ticks

-----------------------------------------------------------------------------
(* Fixed sets of the program *)

GoogleIds == {"gmail", "calendar", "drive", "forms", "slides", "sheets"}

JiraKeys == {"jira", "confluence"}

Keys == GoogleIds \cup JiraKeys

FallbackContent ==
    "Sorry, I encountered an error processing your request. Please try again."

-----------------------------------------------------------------------------
(* Inputs of the presentation layer and outputs of the gateway *)

RECURSIVE SeqsUpTo(_, _)
SeqsUpTo(S, n) ==
    IF n = 0 THEN {<<>>}
    ELSE LET shorter == SeqsUpTo(S, n - 1)
         IN  shorter \cup {Append(s, x) : s \in shorter, x \in S}

Ids == Keys \cup {"notion"}

Credentials == {[domain |-> "d1", email |-> "e1", token |-> "k1"],
                [domain |-> "d2", email |-> "e2", token |-> "k2"]}

\* credentials?: <<>> is undefined, <<c>> is the bundle c
ConnectInputs ==
    {<<id, <<>>>> : id \in Ids} \cup {<<"jira", <<c>>>> : c \in Credentials}

\* "slack" is a service the program does not know
StatusRecords ==
    [service : {"google", "jira"}, connected : BOOLEAN]
        \cup {[service |-> "slack", connected |-> TRUE]}

StatusResponses == SeqsUpTo(StatusRecords, MaxRecs)

\* the empty response and the responses of one record
ShortResponses == {<<>>} \cup {<<r>> : r \in StatusRecords}

\* the responses that tell the families apart: nothing, one family connected
FamilyResponses ==
    {<<>>} \cup {<<[service |-> f, connected |-> TRUE]>> : f \in {"google", "jira"}}

\* response.data.data: <<>> is a missing data field, <<s>> is the sequence s
DataPayloads == {<<>>} \cup {<<s>> : s \in SeqsUpTo({"a", "b"}, MaxData)}

Contents == {"hi", "yo"}

ChatResponses == [message : {"r1"}, thread_id : {"t1", "t2"}]

\* threadId?: <<>> is undefined, <<t>> is the thread t
ThreadArgs == {<<>>, <<"t0">>}

-----------------------------------------------------------------------------
(* Operation records *)

NoReq == [messages |-> <<>>, thread_id |-> <<>>]

\* a gateway call: body is the request body (<<>> when there is none), data
\* the data field of the response once it has arrived (<<>> when there is none)
Call(api, service, body) ==
    [api |-> api, service |-> service, body |-> body, result |-> "pending",
     data |-> <<>>]

Op(kind, id, creds, pc, calls, req) ==
    [kind |-> kind, id |-> id, creds |-> creds, pc |-> pc, calls |-> calls,
     req |-> req]

NoOp == Op("none", "", <<>>, "none", <<>>, NoReq)

CanInvoke == mounted /\ invoked < MaxOps

\* operation i with the outcome of its pending call recorded
Settled(i, result, data) ==
    LET o == ops[i]
        n == Len(o.calls)
    IN  [o EXCEPT !.calls = [o.calls EXCEPT ![n].result = result,
                                            ![n].data = data]]

Without(i) == [k \in 1..(Len(ops) - 1) |-> IF k < i THEN ops[k] ELSE ops[k + 1]]

\* an operation is invoked and awaits its first gateway call
Invoke(op) ==
    /\ ops' = Append(ops, op)
    /\ invoked' = invoked + 1
    /\ UNCHANGED <<done, before>>

\* an operation is invoked and ends without awaiting anything
InvokeAndEnd(op) ==
    /\ done' = op
    /\ before' = integrations
    /\ invoked' = invoked + 1
    /\ UNCHANGED ops

\* the pending call of operation i settles and the operation awaits `more`
Continue(i, result, pc, more) ==
    /\ ops' = [ops EXCEPT ![i] = [Settled(i, result, <<>>) EXCEPT
                                     !.pc = pc, !.calls = @ \o more]]
    /\ UNCHANGED <<done, before, invoked>>

\* the pending call of operation i settles and the operation ends
EndWith(i, result, data, outcome) ==
    /\ done' = [Settled(i, result, data) EXCEPT !.pc = outcome]
    /\ before' = integrations
    /\ ops' = Without(i)
    /\ UNCHANGED invoked

End(i, result, outcome) == EndWith(i, result, <<>>, outcome)

Awaiting(i, kinds, api) ==
    /\ i \in 1..Len(ops)
    /\ ops[i].kind \in kinds
    /\ ops[i].pc = api

Init ==
    /\ mounted = FALSE
    /\ integrations = [k \in Keys |-> FALSE]
    /\ integrationStatus = <<>>
    /\ isLoading = FALSE
    /\ jiraIssues = <<>>
    /\ jiraProjects = <<>>
    /\ googleData = [s \in GoogleIds |-> <<>>]
    /\ messages = <<>>
    /\ chatLoading = FALSE
    /\ currentThreadId = <<>>
    /\ now = 0
    /\ ops = <<>>
    /\ done = NoOp
    /\ before = [k \in Keys |-> FALSE]
    /\ invoked = 0

-----------------------------------------------------------------------------
(* IntegrationsProvider *)

\* SetKey without the spread of prev: { [id]: value }
SetKeyAlone(prev, id, value) == [k \in {id} |-> value]

\* { ...prev, [id]: value }
SetKey(prev, id, value) ==
    [k \in (DOMAIN prev) \cup {id} |-> IF k = id THEN value ELSE prev[k]]

\* ApplyStatus with the mail suite fanned out to its three first keys only
ApplyStatusPartial(acc, status) ==
    IF status.service = "google" /\ status.connected
    THEN [k \in DOMAIN acc |->
            IF k \in {"gmail", "calendar", "drive"} THEN TRUE ELSE acc[k]]
    ELSE IF status.service = "jira" /\ status.connected
    THEN [k \in DOMAIN acc |-> IF k \in JiraKeys THEN TRUE ELSE acc[k]]
    ELSE acc

\* the body of response.data.forEach(status => ...) on newIntegrations
ApplyStatus(acc, status) ==
    IF status.service = "google" /\ status.connected
    THEN [k \in DOMAIN acc |-> IF k \in GoogleIds THEN TRUE ELSE acc[k]]
    ELSE IF status.service = "jira" /\ status.connected
    THEN [k \in DOMAIN acc |-> IF k \in JiraKeys THEN TRUE ELSE acc[k]]
    ELSE acc

RECURSIVE ForEachStatus(_, _)
ForEachStatus(acc, data) ==
    IF data = <<>> THEN acc
    ELSE ForEachStatus(ApplyStatus(acc, Head(data)), Tail(data))

\* NewIntegrations started from {} instead of the eight keys set to false
NewIntegrationsSparse(data) ==
    LET full == ForEachStatus([k \in Keys |-> FALSE], data)
    IN  [k \in {x \in Keys : full[x]} |-> TRUE]

\* newIntegrations after the forEach
NewIntegrations(data) == ForEachStatus([k \in Keys |-> FALSE], data)

\* ReplaceIntegrations as a merge: setIntegrations(prev => ({ ...prev, ...new }))
MergeIntegrations(prev, data) ==
    [k \in (DOMAIN prev) \cup Keys |->
        IF k \in Keys THEN NewIntegrations(data)[k] ELSE prev[k]]

\* setIntegrations(newIntegrations)
ReplaceIntegrations(prev, data) == NewIntegrations(data)

\* response.data.data || []
DataOrEmpty(payload) == IF payload = <<>> THEN <<>> ELSE payload[1]

GetStatusCall == <<Call("getStatus", "", <<>>)>>

Refreshers ==
    {"refreshStatus", "connectIntegration", "disconnectIntegration", "syncAll"}

\* Mount with the coordinators' state kept in a store that outlives them
MountKeepsState ==
    /\ ~mounted
    /\ invoked < MaxOps
    /\ mounted' = TRUE
    /\ isLoading' = TRUE
    /\ Invoke(Op("refreshStatus", "", <<>>, "getStatus", GetStatusCall, NoReq))
    /\ UNCHANGED <<integrations, integrationStatus, jiraIssues, jiraProjects,
                   googleData, chatVars>>

\* AppContent renders the two providers: every useState takes its initial
\* value, then useEffect(() => { refreshStatus(); }, []) runs
Mount ==
    /\ ~mounted
    /\ invoked < MaxOps
    /\ mounted' = TRUE
    /\ integrations' = [k \in Keys |-> FALSE]
    /\ integrationStatus' = <<>>
    /\ jiraIssues' = <<>>
    /\ jiraProjects' = <<>>
    /\ googleData' = [s \in GoogleIds |-> <<>>]
    /\ messages' = <<>>
    /\ chatLoading' = FALSE
    /\ currentThreadId' = <<>>
    /\ isLoading' = TRUE
    /\ Invoke(Op("refreshStatus", "", <<>>, "getStatus", GetStatusCall, NoReq))
    /\ UNCHANGED now

\* the session ends: AppContent renders LoginPage instead of the providers
\* (or the 401 interceptor reloads the page).  The providers' state is no
\* longer observed, and what the operations in flight set later is set on
\* the unmounted providers, so they are dropped here.
Teardown ==
    /\ mounted
    /\ mounted' = FALSE
    /\ ops' = <<>>
    /\ UNCHANGED <<intVars, chatVars, done, before, invoked>>

\* refreshStatus(), up to await integrationsAPI.getStatus()
refreshStatus ==
    /\ CanInvoke
    /\ isLoading' = TRUE
    /\ Invoke(Op("refreshStatus", "", <<>>, "getStatus", GetStatusCall, NoReq))
    /\ UNCHANGED <<mounted, integrations, integrationStatus, jiraIssues,
                   jiraProjects, googleData, chatVars>>

\* await refreshStatus() inside operation i, up to its await of getStatus
RefreshInside(i) ==
    /\ isLoading' = TRUE
    /\ Continue(i, "ok", "getStatus", GetStatusCall)
    /\ UNCHANGED <<mounted, integrations, integrationStatus, jiraIssues,
                   jiraProjects, googleData, chatVars>>

\* refreshStatusOk with the flag cleared only when nothing else is in flight
refreshStatusOkCounted(i, data) ==
    /\ Awaiting(i, Refreshers, "getStatus")
    /\ integrationStatus' = data
    /\ integrations' = ReplaceIntegrations(integrations, data)
    /\ isLoading' = (Len(ops) > 1)
    /\ EndWith(i, "ok", <<data>>, "resolved")
    /\ UNCHANGED <<mounted, jiraIssues, jiraProjects, googleData, chatVars>>

\* refreshStatusOk dropping the response of a status call that is not the one
\* issued last
refreshStatusOkLatestIssued(i, data) ==
    /\ Awaiting(i, Refreshers, "getStatus")
    /\ integrationStatus' = (IF i = Len(ops) THEN data ELSE integrationStatus)
    /\ integrations' = (IF i = Len(ops)
                          THEN ReplaceIntegrations(integrations, data)
                          ELSE integrations)
    /\ isLoading' = FALSE
    /\ EndWith(i, "ok", <<data>>, "resolved")
    /\ UNCHANGED <<mounted, jiraIssues, jiraProjects, googleData, chatVars>>

\* getStatus resolved: the rest of the try block and the finally block of
\* refreshStatus; an operation that awaited refreshStatus() then ends too
\* (syncAll clears the loading flag once more in its own finally block)
refreshStatusOk(i, data) ==
    /\ Awaiting(i, Refreshers, "getStatus")
    /\ integrationStatus' = data
    /\ integrations' = ReplaceIntegrations(integrations, data)
    /\ isLoading' = FALSE
    /\ EndWith(i, "ok", <<data>>, "resolved")
    /\ UNCHANGED <<mounted, jiraIssues, jiraProjects, googleData, chatVars>>

\* refreshStatusFail with the IntegrationSet reset in the catch block
refreshStatusFailResets(i) ==
    /\ Awaiting(i, Refreshers, "getStatus")
    /\ integrations' = [k \in Keys |-> FALSE]
    /\ isLoading' = FALSE
    /\ End(i, "err", "resolved")
    /\ UNCHANGED <<mounted, integrationStatus, jiraIssues, jiraProjects,
                   googleData, chatVars>>

\* getStatus rejected: the catch block and the finally block of refreshStatus
refreshStatusFail(i) ==
    /\ Awaiting(i, Refreshers, "getStatus")
    /\ isLoading' = FALSE
    /\ End(i, "err", "resolved")
    /\ UNCHANGED <<mounted, integrations, integrationStatus, jiraIssues,
                   jiraProjects, googleData, chatVars>>

\* ConnectBranch with the mail suite as its three first ids only
ConnectBranchThree(id, creds) ==
    IF id \in {"gmail", "calendar", "drive"} THEN "google"
    ELSE IF id = "jira" /\ creds # <<>> THEN "jira"
    ELSE "local"

\* ConnectBranch without the test of credentials
ConnectBranchAnyJira(id, creds) ==
    IF id \in GoogleIds THEN "google"
    ELSE IF id = "jira" THEN "jira"
    ELSE "local"

\* the branch connectIntegration takes
ConnectBranch(id, creds) ==
    IF id \in GoogleIds THEN "google"
    ELSE IF id = "jira" /\ creds # <<>> THEN "jira"
    ELSE "local"

\* connectIntegration(id, credentials), up to its first await (or to its end)
connectIntegration(id, creds) ==
    /\ CanInvoke
    /\ LET branch == ConnectBranch(id, creds)
       IN  CASE branch = "google" ->
                  /\ Invoke(Op("connectIntegration", id, creds, "getGoogleData",
                               <<Call("getGoogleData", id, <<>>)>>, NoReq))
                  /\ UNCHANGED integrations
             [] branch = "jira" ->
                  /\ Invoke(Op("connectIntegration", id, creds, "connectJira",
                               <<Call("connectJira", "", creds)>>, NoReq))
                  /\ UNCHANGED integrations
             [] OTHER ->
                  /\ InvokeAndEnd(Op("connectIntegration", id, creds,
                                     "resolved", <<>>, NoReq))
                  /\ integrations' = SetKey(integrations, id, TRUE)
    /\ UNCHANGED <<mounted, integrationStatus, isLoading, jiraIssues,
                   jiraProjects, googleData, chatVars>>

\* getGoogleData (the auth-check) or connectJira resolved: await refreshStatus()
connectIntegrationOk(i) ==
    /\ \/ Awaiting(i, {"connectIntegration"}, "getGoogleData")
       \/ Awaiting(i, {"connectIntegration"}, "connectJira")
    /\ RefreshInside(i)

\* ConnectFailureOutcome with a try/catch around the jira branch too
ConnectFailureSwallowed(api) == "resolved"

\* how connectIntegration ends when its first gateway call rejects:
\* the google branch has a try/catch, the jira branch has none
ConnectFailureOutcome(api) ==
    IF api = "connectJira" THEN "rejected" ELSE "resolved"

\* getGoogleData (the auth-check) or connectJira rejected
connectIntegrationFail(i) ==
    /\ \/ Awaiting(i, {"connectIntegration"}, "getGoogleData")
       \/ Awaiting(i, {"connectIntegration"}, "connectJira")
    /\ End(i, "err", ConnectFailureOutcome(ops[i].pc))
    /\ UNCHANGED <<mounted, intVars, chatVars>>

\* DisconnectBranch with the issue tracker disconnected remotely too
DisconnectBranchJira(id) ==
    IF id \in GoogleIds \cup {"jira"} THEN "google" ELSE "local"

\* the branch disconnectIntegration takes
DisconnectBranch(id) == IF id \in GoogleIds THEN "google" ELSE "local"

\* disconnectIntegration(id), up to its first await (or to its end)
disconnectIntegration(id) ==
    /\ CanInvoke
    /\ IF DisconnectBranch(id) = "google"
       THEN /\ Invoke(Op("disconnectIntegration", id, <<>>, "disconnectGoogle",
                         <<Call("disconnectGoogle", "", <<>>)>>, NoReq))
            /\ UNCHANGED integrations
       ELSE /\ InvokeAndEnd(Op("disconnectIntegration", id, <<>>, "resolved",
                               <<>>, NoReq))
            /\ integrations' = SetKey(integrations, id, FALSE)
    /\ UNCHANGED <<mounted, integrationStatus, isLoading, jiraIssues,
                   jiraProjects, googleData, chatVars>>

\* disconnectGoogle resolved: await refreshStatus()
disconnectIntegrationOk(i) ==
    /\ Awaiting(i, {"disconnectIntegration"}, "disconnectGoogle")
    /\ RefreshInside(i)

\* disconnectGoogle rejected: the catch block
disconnectIntegrationFail(i) ==
    /\ Awaiting(i, {"disconnectIntegration"}, "disconnectGoogle")
    /\ End(i, "err", "resolved")
    /\ UNCHANGED <<mounted, intVars, chatVars>>

\* syncAll(), up to await integrationsAPI.syncAll()
syncAll ==
    /\ CanInvoke
    /\ isLoading' = TRUE
    /\ Invoke(Op("syncAll", "", <<>>, "syncAll",
                 <<Call("syncAll", "", <<>>)>>, NoReq))
    /\ UNCHANGED <<mounted, integrations, integrationStatus, jiraIssues,
                   jiraProjects, googleData, chatVars>>

\* the sync call resolved: await refreshStatus()
syncAllOk(i) ==
    /\ Awaiting(i, {"syncAll"}, "syncAll")
    /\ RefreshInside(i)

\* syncAllFail with the refresh outside the try block
syncAllFailRefreshes(i) ==
    /\ Awaiting(i, {"syncAll"}, "syncAll")
    /\ isLoading' = TRUE
    /\ Continue(i, "err", "getStatus", GetStatusCall)
    /\ UNCHANGED <<mounted, integrations, integrationStatus, jiraIssues,
                   jiraProjects, googleData, chatVars>>

\* the sync call rejected: the catch block and the finally block
syncAllFail(i) ==
    /\ Awaiting(i, {"syncAll"}, "syncAll")
    /\ isLoading' = FALSE
    /\ End(i, "err", "resolved")
    /\ UNCHANGED <<mounted, integrations, integrationStatus, jiraIssues,
                   jiraProjects, googleData, chatVars>>

\* fetchJiraIssues(), up to await integrationsAPI.getJiraData('issues')
fetchJiraIssues ==
    /\ CanInvoke
    /\ isLoading' = TRUE
    /\ Invoke(Op("fetchJiraIssues", "", <<>>, "getJiraData",
                 <<Call("getJiraData", "issues", <<>>)>>, NoReq))
    /\ UNCHANGED <<mounted, integrations, integrationStatus, jiraIssues,
                   jiraProjects, googleData, chatVars>>

\* getJiraData('issues') resolved: setJiraIssues(response.data.data || [])
fetchJiraIssuesOk(i, payload) ==
    /\ Awaiting(i, {"fetchJiraIssues"}, "getJiraData")
    /\ jiraIssues' = DataOrEmpty(payload)
    /\ isLoading' = FALSE
    /\ EndWith(i, "ok", payload, "resolved")
    /\ UNCHANGED <<mounted, integrations, integrationStatus, jiraProjects,
                   googleData, chatVars>>

\* getJiraData('issues') rejected: setJiraIssues([])
fetchJiraIssuesFail(i) ==
    /\ Awaiting(i, {"fetchJiraIssues"}, "getJiraData")
    /\ jiraIssues' = <<>>
    /\ isLoading' = FALSE
    /\ End(i, "err", "resolved")
    /\ UNCHANGED <<mounted, integrations, integrationStatus, jiraProjects,
                   googleData, chatVars>>

\* fetchJiraProjects(), up to await integrationsAPI.getJiraData('projects')
fetchJiraProjects ==
    /\ CanInvoke
    /\ isLoading' = TRUE
    /\ Invoke(Op("fetchJiraProjects", "", <<>>, "getJiraData",
                 <<Call("getJiraData", "projects", <<>>)>>, NoReq))
    /\ UNCHANGED <<mounted, integrations, integrationStatus, jiraIssues,
                   jiraProjects, googleData, chatVars>>

\* fetchJiraProjectsOk storing the projects with setJiraIssues
fetchJiraProjectsOkAsIssues(i, payload) ==
    /\ Awaiting(i, {"fetchJiraProjects"}, "getJiraData")
    /\ jiraIssues' = DataOrEmpty(payload)
    /\ isLoading' = FALSE
    /\ EndWith(i, "ok", payload, "resolved")
    /\ UNCHANGED <<mounted, integrations, integrationStatus, jiraProjects,
                   googleData, chatVars>>

\* getJiraData('projects') resolved: setJiraProjects(response.data.data || [])
fetchJiraProjectsOk(i, payload) ==
    /\ Awaiting(i, {"fetchJiraProjects"}, "getJiraData")
    /\ jiraProjects' = DataOrEmpty(payload)
    /\ isLoading' = FALSE
    /\ EndWith(i, "ok", payload, "resolved")
    /\ UNCHANGED <<mounted, integrations, integrationStatus, jiraIssues,
                   googleData, chatVars>>

\* getJiraData('projects') rejected: setJiraProjects([])
fetchJiraProjectsFail(i) ==
    /\ Awaiting(i, {"fetchJiraProjects"}, "getJiraData")
    /\ jiraProjects' = <<>>
    /\ isLoading' = FALSE
    /\ End(i, "err", "resolved")
    /\ UNCHANGED <<mounted, integrations, integrationStatus, jiraIssues,
                   googleData, chatVars>>

\* fetchGoogleService(service), up to await getGoogleData(service)
fetchGoogleService(service) ==
    /\ CanInvoke
    /\ isLoading' = TRUE
    /\ Invoke(Op("fetchGoogleService", service, <<>>, "getGoogleData",
                 <<Call("getGoogleData", service, <<>>)>>, NoReq))
    /\ UNCHANGED <<mounted, integrations, integrationStatus, jiraIssues,
                   jiraProjects, googleData, chatVars>>

\* StoreGoogleData appending to the slot instead of replacing it
StoreGoogleDataAppended(prev, service, payload) ==
    SetKey(prev, service, prev[service] \o DataOrEmpty(payload))

\* StoreGoogleData putting the new records in front of the ones in the slot
StoreGoogleDataMerged(prev, service, payload) ==
    SetKey(prev, service, DataOrEmpty(payload) \o prev[service])

\* StoreGoogleData without the spread of prev: the other slots are emptied
StoreGoogleDataAlone(prev, service, payload) ==
    [k \in DOMAIN prev |-> IF k = service THEN DataOrEmpty(payload) ELSE <<>>]

\* setGoogleData(prev => ({ ...prev, [service]: response?.data?.data || [] }))
StoreGoogleData(prev, service, payload) ==
    SetKey(prev, service, DataOrEmpty(payload))

\* getGoogleData resolved inside fetchGoogleService
fetchGoogleServiceOk(i, payload) ==
    /\ Awaiting(i, {"fetchGoogleService"}, "getGoogleData")
    /\ googleData' = StoreGoogleData(googleData, ops[i].id, payload)
    /\ isLoading' = FALSE
    /\ EndWith(i, "ok", payload, "resolved")
    /\ UNCHANGED <<mounted, integrations, integrationStatus, jiraIssues,
                   jiraProjects, chatVars>>

\* fetchGoogleServiceFail without the finally block: the flag stays set
fetchGoogleServiceFailNoFinally(i) ==
    /\ Awaiting(i, {"fetchGoogleService"}, "getGoogleData")
    /\ End(i, "err", "resolved")
    /\ UNCHANGED <<mounted, intVars, chatVars>>

\* getGoogleData rejected inside fetchGoogleService: catch and finally
fetchGoogleServiceFail(i) ==
    /\ Awaiting(i, {"fetchGoogleService"}, "getGoogleData")
    /\ isLoading' = FALSE
    /\ End(i, "err", "resolved")
    /\ UNCHANGED <<mounted, integrations, integrationStatus, jiraIssues,
                   jiraProjects, googleData, chatVars>>

-----------------------------------------------------------------------------
(* ChatProvider *)

Message(id, content, type, timestamp) ==
    [id |-> id, content |-> content, type |-> type, timestamp |-> timestamp]

\* ApiMessages with the user's turns only
ApiMessagesUserOnly(history) ==
    LET turns == SelectSeq(history, LAMBDA m : m.type = "user")
    IN  [k \in 1..Len(turns) |->
            [role |-> turns[k].type, content |-> turns[k].content]]

\* messages.map(msg => ({ role: msg.type, content: msg.content }))
ApiMessages(history) ==
    [k \in 1..Len(history) |->
        [role |-> history[k].type, content |-> history[k].content]]

\* RequestThread without the stored thread: threadId || undefined
RequestThreadArgOnly(threadId, current) == threadId

\* threadId || currentThreadId || undefined
RequestThread(threadId, current) ==
    IF threadId # <<>> THEN threadId ELSE current

\* addMessage putting the message first: setMessages(prev => [message, ...prev])
addMessagePrepended(prev, message) == <<message>> \o prev

\* addMessage: setMessages(prev => [...prev, message])
addMessage(prev, message) == Append(prev, message)

\* sendMessage building its request from the history after its own append
sendMessageAfterAppend(content, threadId, t) ==
    /\ CanInvoke
    /\ t >= now
    /\ now' = t
    /\ chatLoading' = TRUE
    /\ messages' = addMessage(messages, Message(t, content, "user", t))
    /\ Invoke(Op("sendMessage", content, threadId, "chat",
                 <<Call("chat", "", <<>>)>>,
                 [messages |-> ApiMessages(messages')
                                 \o <<[role |-> "user", content |-> content]>>,
                  thread_id |-> RequestThread(threadId, currentThreadId)]))
    /\ UNCHANGED <<mounted, intVars, currentThreadId>>

\* sendMessage(content, threadId), up to await chatAPI.sendMessage(...);
\* t is the value Date.now() returns; the operation's record keeps threadId
\* in its creds field
sendMessage(content, threadId, t) ==
    /\ CanInvoke
    /\ t >= now
    /\ now' = t
    /\ chatLoading' = TRUE
    /\ messages' = addMessage(messages, Message(t, content, "user", t))
    /\ Invoke(Op("sendMessage", content, threadId, "chat",
                 <<Call("chat", "", <<>>)>>,
                 [messages |-> ApiMessages(messages)
                                 \o <<[role |-> "user", content |-> content]>>,
                  thread_id |-> RequestThread(threadId, currentThreadId)]))
    /\ UNCHANGED <<mounted, intVars, currentThreadId>>

\* sendMessageOk without setCurrentThreadId(response.data.thread_id)
sendMessageOkThreadNotStored(i, response, t) ==
    /\ Awaiting(i, {"sendMessage"}, "chat")
    /\ t >= now
    /\ now' = t
    /\ messages' = addMessage(messages,
                              Message(t + 1, response.message, "assistant", t))
    /\ chatLoading' = FALSE
    /\ EndWith(i, "ok", <<response>>, "resolved")
    /\ UNCHANGED <<mounted, intVars, currentThreadId>>

\* sendMessageOk appending to the history as the send saw it, not to prev:
\* setMessages([...snapshot, userMessage, assistantMessage])
sendMessageOkFromSnapshot(i, response, t) ==
    /\ Awaiting(i, {"sendMessage"}, "chat")
    /\ t >= now
    /\ now' = t
    /\ currentThreadId' = <<response.thread_id>>
    /\ messages' = addMessage(SubSeq(messages, 1, Len(ops[i].req.messages)),
                              Message(t + 1, response.message, "assistant", t))
    /\ chatLoading' = FALSE
    /\ EndWith(i, "ok", <<response>>, "resolved")
    /\ UNCHANGED <<mounted, intVars>>

\* the chat call resolved: the rest of the try block and the finally block
sendMessageOk(i, response, t) ==
    /\ Awaiting(i, {"sendMessage"}, "chat")
    /\ t >= now
    /\ now' = t
    /\ currentThreadId' = <<response.thread_id>>
    /\ messages' = addMessage(messages,
                              Message(t + 1, response.message, "assistant", t))
    /\ chatLoading' = FALSE
    /\ EndWith(i, "ok", <<response>>, "resolved")
    /\ UNCHANGED <<mounted, intVars>>

\* sendMessageFail with the conversation's thread dropped in the catch block
sendMessageFailClearsThread(i, t) ==
    /\ Awaiting(i, {"sendMessage"}, "chat")
    /\ t >= now
    /\ now' = t
    /\ currentThreadId' = <<>>
    /\ messages' = addMessage(messages,
                              Message(t + 1, FallbackContent, "assistant", t))
    /\ chatLoading' = FALSE
    /\ End(i, "err", "resolved")
    /\ UNCHANGED <<mounted, intVars>>

\* sendMessageFail with the id of the fallback message not advanced by one
sendMessageFailSameId(i, t) ==
    /\ Awaiting(i, {"sendMessage"}, "chat")
    /\ t >= now
    /\ now' = t
    /\ messages' = addMessage(messages,
                              Message(t, FallbackContent, "assistant", t))
    /\ chatLoading' = FALSE
    /\ End(i, "err", "resolved")
    /\ UNCHANGED <<mounted, intVars, currentThreadId>>

\* the chat call rejected: the catch block and the finally block
sendMessageFail(i, t) ==
    /\ Awaiting(i, {"sendMessage"}, "chat")
    /\ t >= now
    /\ now' = t
    /\ messages' = addMessage(messages,
                              Message(t + 1, FallbackContent, "assistant", t))
    /\ chatLoading' = FALSE
    /\ End(i, "err", "resolved")
    /\ UNCHANGED <<mounted, intVars, currentThreadId>>

\* clearMessages without setCurrentThreadId(null)
clearMessagesHistoryOnly ==
    /\ mounted
    /\ messages' = <<>>
    /\ UNCHANGED <<mounted, intVars, chatLoading, currentThreadId, now, ops,
                   done, before, invoked>>

\* clearMessages cancelling the sends in flight: it clears the flag as well
clearMessagesCancels ==
    /\ mounted
    /\ messages' = <<>>
    /\ currentThreadId' = <<>>
    /\ chatLoading' = FALSE
    /\ UNCHANGED <<mounted, intVars, now, ops, done, before, invoked>>

\* clearMessages cancelling the sends in flight: they never append
clearMessagesDropsSends ==
    /\ mounted
    /\ messages' = <<>>
    /\ currentThreadId' = <<>>
    /\ ops' = SelectSeq(ops, LAMBDA o : o.kind # "sendMessage")
    /\ UNCHANGED <<mounted, intVars, chatLoading, now, done, before, invoked>>

\* clearMessages(): both setters run in one handler, rendered together
clearMessages ==
    /\ mounted
    /\ messages' = <<>>
    /\ currentThreadId' = <<>>
    /\ UNCHANGED <<mounted, intVars, chatLoading, now, ops, done, before, invoked>>

-----------------------------------------------------------------------------
(* The system *)

OpIds == 1..MaxOps

Times == 0..MaxNow

LocalIds == Ids \ GoogleIds

Refreshed ==
    \/ \E i \in OpIds, data \in ShortResponses : refreshStatusOk(i, data)
    \/ \E i \in OpIds : refreshStatusFail(i)

LocalToggle ==
    \/ \E id \in LocalIds : connectIntegration(id, <<>>)
    \/ \E id \in LocalIds : disconnectIntegration(id)

\* the status refresh and the local toggles it overwrites
NextStatus ==
    \/ Mount
    \/ refreshStatus
    \/ \E i \in OpIds, data \in StatusResponses : refreshStatusOk(i, data)
    \/ \E i \in OpIds : refreshStatusFail(i)
    \/ LocalToggle

SpecStatus == Init /\ [][NextStatus]_vars

\* connect, disconnect and sync, each with the refresh it ends with
NextConnect ==
    \/ Mount
    \/ \E i \in OpIds, data \in FamilyResponses : refreshStatusOk(i, data)
    \/ \E i \in OpIds : refreshStatusFail(i)
    \/ \E in \in ConnectInputs : connectIntegration(in[1], in[2])
    \/ \E i \in OpIds : connectIntegrationOk(i)
    \/ \E i \in OpIds : connectIntegrationFail(i)
    \/ \E id \in Ids : disconnectIntegration(id)
    \/ \E i \in OpIds : disconnectIntegrationOk(i)
    \/ \E i \in OpIds : disconnectIntegrationFail(i)
    \/ syncAll
    \/ \E i \in OpIds : syncAllOk(i)
    \/ \E i \in OpIds : syncAllFail(i)

SpecConnect == Init /\ [][NextConnect]_vars

\* the data fetches, with the refresh and the toggles that set the flags
NextFetch ==
    \/ Mount
    \/ \E i \in OpIds, data \in FamilyResponses : refreshStatusOk(i, data)
    \/ \E i \in OpIds : refreshStatusFail(i)
    \/ fetchJiraIssues
    \/ fetchJiraProjects
    \/ \E i \in OpIds, payload \in DataPayloads : fetchJiraIssuesOk(i, payload)
    \/ \E i \in OpIds : fetchJiraIssuesFail(i)
    \/ \E i \in OpIds, payload \in DataPayloads : fetchJiraProjectsOk(i, payload)
    \/ \E i \in OpIds : fetchJiraProjectsFail(i)
    \/ \E service \in GoogleIds : fetchGoogleService(service)
    \/ \E i \in OpIds, payload \in DataPayloads : fetchGoogleServiceOk(i, payload)
    \/ \E i \in OpIds : fetchGoogleServiceFail(i)

SpecFetch == Init /\ [][NextFetch]_vars

\* the conversation; the refresh of the mount effect ends with the empty
\* response or fails
NextChat ==
    \/ Mount
    \/ \E i \in OpIds : refreshStatusOk(i, <<>>)
    \/ \E i \in OpIds : refreshStatusFail(i)
    \/ \E c \in Contents, th \in ThreadArgs, t \in Times : sendMessage(c, th, t)
    \/ \E i \in OpIds, r \in ChatResponses, t \in Times : sendMessageOk(i, r, t)
    \/ \E i \in OpIds, t \in Times : sendMessageFail(i, t)
    \/ clearMessages

SpecChat == Init /\ [][NextChat]_vars

\* the conversation without a clear: sends that overlap
NextSends ==
    \/ Mount
    \/ \E i \in OpIds : refreshStatusOk(i, <<>>)
    \/ \E i \in OpIds : refreshStatusFail(i)
    \/ \E c \in Contents, th \in ThreadArgs, t \in Times : sendMessage(c, th, t)
    \/ \E i \in OpIds, r \in ChatResponses, t \in Times : sendMessageOk(i, r, t)
    \/ \E i \in OpIds, t \in Times : sendMessageFail(i, t)

SpecSends == Init /\ [][NextSends]_vars

\* writes to single keys: the per-service fetches and the local toggles
NextWrites ==
    \/ Mount
    \/ \E i \in OpIds : refreshStatusOk(i, <<>>)
    \/ \E i \in OpIds : refreshStatusFail(i)
    \/ LocalToggle
    \/ \E service \in GoogleIds : fetchGoogleService(service)
    \/ \E i \in OpIds, payload \in DataPayloads : fetchGoogleServiceOk(i, payload)
    \/ \E i \in OpIds : fetchGoogleServiceFail(i)

SpecWrites == Init /\ [][NextWrites]_vars

\* one id of each branch of connectIntegration and disconnectIntegration
MainIds == {"gmail", "jira", "notion"}

\* sessions: mount, some operations that leave state behind, teardown
NextSession ==
    \/ Mount
    \/ Teardown
    \/ \E i \in OpIds, data \in FamilyResponses : refreshStatusOk(i, data)
    \/ \E i \in OpIds : refreshStatusFail(i)
    \/ LocalToggle
    \/ fetchJiraIssues
    \/ \E i \in OpIds, payload \in DataPayloads : fetchJiraIssuesOk(i, payload)
    \/ \E i \in OpIds : fetchJiraIssuesFail(i)
    \/ \E service \in MainIds \cap GoogleIds : fetchGoogleService(service)
    \/ \E i \in OpIds, payload \in DataPayloads : fetchGoogleServiceOk(i, payload)
    \/ \E i \in OpIds : fetchGoogleServiceFail(i)
    \/ \E c \in Contents, t \in Times : sendMessage(c, <<>>, t)
    \/ \E i \in OpIds, r \in ChatResponses, t \in Times : sendMessageOk(i, r, t)
    \/ \E i \in OpIds, t \in Times : sendMessageFail(i, t)

SpecSession == Init /\ [][NextSession]_vars

\* both coordinators, every operation
Next ==
    \/ Mount
    \/ refreshStatus
    \/ Refreshed
    \/ \E in \in ConnectInputs : in[1] \in MainIds /\ connectIntegration(in[1], in[2])
    \/ \E i \in OpIds : connectIntegrationOk(i)
    \/ \E i \in OpIds : connectIntegrationFail(i)
    \/ \E id \in MainIds : disconnectIntegration(id)
    \/ \E i \in OpIds : disconnectIntegrationOk(i)
    \/ \E i \in OpIds : disconnectIntegrationFail(i)
    \/ syncAll
    \/ \E i \in OpIds : syncAllOk(i)
    \/ \E i \in OpIds : syncAllFail(i)
    \/ fetchJiraIssues
    \/ fetchJiraProjects
    \/ \E i \in OpIds, payload \in DataPayloads : fetchJiraIssuesOk(i, payload)
    \/ \E i \in OpIds : fetchJiraIssuesFail(i)
    \/ \E i \in OpIds, payload \in DataPayloads : fetchJiraProjectsOk(i, payload)
    \/ \E i \in OpIds : fetchJiraProjectsFail(i)
    \/ \E service \in MainIds \cap GoogleIds : fetchGoogleService(service)
    \/ \E i \in OpIds, payload \in DataPayloads : fetchGoogleServiceOk(i, payload)
    \/ \E i \in OpIds : fetchGoogleServiceFail(i)
    \/ \E c \in Contents, t \in Times : sendMessage(c, <<>>, t)
    \/ \E i \in OpIds, r \in ChatResponses, t \in Times : sendMessageOk(i, r, t)
    \/ \E i \in OpIds, t \in Times : sendMessageFail(i, t)
    \/ clearMessages

Spec == Init /\ [][Next]_vars

\* a pending gateway call of some operation in flight succeeds or fails
Settle ==
    \/ Refreshed
    \/ \E i \in OpIds : connectIntegrationOk(i)
    \/ \E i \in OpIds : connectIntegrationFail(i)
    \/ \E i \in OpIds : disconnectIntegrationOk(i)
    \/ \E i \in OpIds : disconnectIntegrationFail(i)
    \/ \E i \in OpIds : syncAllOk(i)
    \/ \E i \in OpIds : syncAllFail(i)
    \/ \E i \in OpIds, payload \in DataPayloads : fetchJiraIssuesOk(i, payload)
    \/ \E i \in OpIds : fetchJiraIssuesFail(i)
    \/ \E i \in OpIds, payload \in DataPayloads : fetchJiraProjectsOk(i, payload)
    \/ \E i \in OpIds : fetchJiraProjectsFail(i)
    \/ \E i \in OpIds, payload \in DataPayloads : fetchGoogleServiceOk(i, payload)
    \/ \E i \in OpIds : fetchGoogleServiceFail(i)
    \/ \E i \in OpIds, r \in ChatResponses, t \in Times : sendMessageOk(i, r, t)
    \/ \E i \in OpIds, t \in Times : sendMessageFail(i, t)

\* both coordinators when the gateway answers every call, with a response or
\* with an error
FairSpec == Spec /\ WF_vars(Settle)

-----------------------------------------------------------------------------
(* Properties *)

LastCall(o) == o.calls[Len(o.calls)]

\* o ended with its getStatus call resolved / rejected
StatusOk(o) == o.calls # <<>> /\ LastCall(o).api = "getStatus" /\ LastCall(o).result = "ok"

StatusErr(o) == o.calls # <<>> /\ LastCall(o).api = "getStatus" /\ LastCall(o).result = "err"

\* some record of the stored status has this service connected
Connected(service) ==
    \E n \in 1..Len(integrationStatus) :
        /\ integrationStatus[n].service = service
        /\ integrationStatus[n].connected

\* the step ends an operation that was in flight
EndStep == Len(ops') < Len(ops)

\* o is connectIntegration('jira', credentials) whose connect call rejected
FailedJiraConnect(o) ==
    /\ o.kind = "connectIntegration"
    /\ o.id = "jira"
    /\ o.creds # <<>>
    /\ Len(o.calls) = 1
    /\ o.calls[1].api = "connectJira"
    /\ o.calls[1].result = "err"

\* C1 as stated: every public operation resolves, whichever gateway call
\* inside it fails; no operation ever rejects to its caller.
C1_NeverRejects == done.pc # "rejected"

\* C1 amended: an operation that has ended has resolved, whichever gateway
\* call inside it failed, unless it is connectIntegration('jira', credentials)
\* whose connect call failed; that one, and only that one, rejects.
C1_OnlyJiraConnectRejects ==
    /\ done.pc \in {"none", "resolved", "rejected"}
    /\ done.pc = "rejected" <=> FailedJiraConnect(done)

C1_Witness ==
    /\ done.kind = "sendMessage"
    /\ done.calls[1].result = "err"
    /\ done.pc = "resolved"
    /\ messages # <<>>
    /\ messages[Len(messages)].content = FallbackContent

\* C2: after a successful refreshStatus the six mail-suite keys are all true
\* iff some record is {google, connected}, jira and confluence are both true
\* iff some record is {jira, connected}, and there is no other key.
C2_FamiliesTogether ==
    StatusOk(done) =>
        /\ DOMAIN integrations = Keys
        /\ \A k \in GoogleIds : integrations[k] = Connected("google")
        /\ \A k \in JiraKeys : integrations[k] = Connected("jira")

C2_Witness ==
    /\ StatusOk(done)
    /\ integrationStatus = <<[service |-> "google", connected |-> TRUE]>>
    /\ \A k \in GoogleIds : integrations[k]
    /\ \A k \in JiraKeys : ~integrations[k]

\* C3: a successful refreshStatus replaces the IntegrationSet by the value
\* derived from the gateway's records; nothing of the previous set, a locally
\* toggled flag included, survives.
C3_ReplacedEntirely ==
    StatusOk(done) => integrations = NewIntegrations(integrationStatus)

\* confluence was connected locally (jira was not) and a key was added
\* locally, and the refresh has overwritten both
C3_Witness ==
    /\ StatusOk(done)
    /\ before["confluence"] /\ ~before["jira"]
    /\ "notion" \in DOMAIN before
    /\ ~integrations["confluence"]
    /\ "notion" \notin DOMAIN integrations

\* C4: the step in which the status call fails leaves the IntegrationSet and
\* the stored status records as they were and clears the loading flag.
C4_FailureLeavesState ==
    [][(EndStep /\ StatusErr(done')) =>
          /\ integrations' = integrations
          /\ integrationStatus' = integrationStatus
          /\ isLoading' = FALSE]_vars

C4_Witness ==
    /\ StatusErr(done)
    /\ done.kind = "refreshStatus"
    /\ integrations = before
    /\ integrations["confluence"]
    /\ integrationStatus # <<>>
    /\ ~isLoading

\* the calls of o are first, and then getStatus only once first has resolved
FirstThenStatus(o, first) ==
    /\ Len(o.calls) \in {1, 2}
    /\ o.calls[1].api = first
    /\ Len(o.calls) = 2 =>
          /\ o.calls[1].result = "ok"
          /\ o.calls[2].api = "getStatus"
    /\ o.calls[1].result = "err" => Len(o.calls) = 1
    /\ o.calls[1].result = "pending" => o.pc = first

\* every operation, in flight or the last one ended
AllOps == {ops[i] : i \in 1..Len(ops)} \cup {done}

GoogleConnect(o) == o.kind = "connectIntegration" /\ o.id \in GoogleIds

\* C5: connectIntegration of a mail-suite id issues the auth-check for that
\* id, issues the status call only after the auth-check has succeeded, and
\* when the auth-check fails it resolves with no status call issued and the
\* IntegrationSet as it was.
C5_GoogleConnect ==
    /\ \A o \in AllOps : GoogleConnect(o) =>
          /\ FirstThenStatus(o, "getGoogleData")
          /\ o.calls[1].service = o.id
    /\ (GoogleConnect(done) /\ done.calls[1].result = "err") =>
          /\ done.pc = "resolved"
          /\ integrations = before

C5_Witness ==
    /\ GoogleConnect(done)
    /\ done.id = "forms"
    /\ done.calls[1].result = "err"
    /\ integrations["jira"]

JiraConnect(o) == o.kind = "connectIntegration" /\ o.id = "jira"

\* C6: connectIntegration('jira', credentials) calls the connect endpoint
\* exactly when credentials are supplied, with the credentials as supplied,
\* and issues the status call only after the connect call has resolved; a
\* failed connect issues no status call and leaves the IntegrationSet.
C6_JiraConnect ==
    /\ \A o \in AllOps : JiraConnect(o) =>
          /\ (o.creds = <<>>) <=> (o.calls = <<>>)
          /\ o.creds # <<>> =>
                /\ FirstThenStatus(o, "connectJira")
                /\ o.calls[1].body = o.creds
    /\ (JiraConnect(done) /\ done.calls # <<>> /\ done.calls[1].result = "err") =>
          integrations = before

C6_Witness ==
    /\ JiraConnect(done)
    /\ Len(done.calls) = 2
    /\ done.calls[1].body = done.creds
    /\ StatusOk(done)
    /\ integrations["jira"]

\* the operation the step invokes
Invoked == IF Len(ops') > Len(ops) THEN ops'[Len(ops')] ELSE done'

\* C7: connectIntegration(id) and disconnectIntegration(id) for an id of
\* neither family issue no gateway call, set the flag of id to true,
\* respectively false, and leave every other flag, the status records, the
\* data caches and the loading flag unchanged.
C7_LocalToggle ==
    [][(/\ invoked' = invoked + 1
        /\ Invoked.kind \in {"connectIntegration", "disconnectIntegration"}
        /\ Invoked.id \notin Keys) =>
          /\ ops' = ops
          /\ done'.calls = <<>>
          /\ DOMAIN integrations' = (DOMAIN integrations) \cup {done'.id}
          /\ integrations'[done'.id] = (done'.kind = "connectIntegration")
          /\ \A k \in (DOMAIN integrations) \ {done'.id} :
                integrations'[k] = integrations[k]
          /\ UNCHANGED <<integrationStatus, jiraIssues, jiraProjects,
                         googleData, isLoading>>]_vars

C7_Witness ==
    /\ done.kind = "disconnectIntegration"
    /\ done.id = "notion"
    /\ done.calls = <<>>
    /\ "notion" \in DOMAIN before
    /\ before["notion"]
    /\ ~integrations["notion"]
    /\ integrations["gmail"]

Disconnect(o) == o.kind = "disconnectIntegration"

\* C8: disconnectIntegration of a mail-suite id issues exactly one disconnect
\* call, and the status call only after it has resolved (none on failure,
\* which leaves the IntegrationSet); for every other id, jira included, it
\* issues no gateway call and only sets the flag of that id to false.
C8_Disconnect ==
    /\ \A o \in AllOps : Disconnect(o) =>
          IF o.id \in GoogleIds
          THEN /\ FirstThenStatus(o, "disconnectGoogle")
               /\ Cardinality({n \in 1..Len(o.calls) :
                                  o.calls[n].api = "disconnectGoogle"}) = 1
          ELSE o.calls = <<>>
    /\ (Disconnect(done) /\ done.id \in GoogleIds
          /\ done.calls[1].result = "err") => integrations = before
    /\ (Disconnect(done) /\ done.id \notin GoogleIds) =>
          /\ DOMAIN integrations = (DOMAIN before) \cup {done.id}
          /\ \A k \in DOMAIN integrations :
                integrations[k] = (k # done.id /\ before[k])

C8_Witness ==
    /\ Disconnect(done)
    /\ done.id = "jira"
    /\ before["jira"]
    /\ ~integrations["jira"]
    /\ integrations["confluence"]
    /\ Connected("jira")

\* C9: syncAll issues the sync call, and the status call only once the sync
\* call has succeeded; the step in which the sync call fails issues no status
\* call, leaves the IntegrationSet, and the step that ends syncAll clears the
\* loading flag.
C9_SyncAll ==
    [][/\ \A i \in 1..Len(ops') :
             ops'[i].kind = "syncAll" => FirstThenStatus(ops'[i], "syncAll")
       /\ (EndStep /\ done'.kind = "syncAll") =>
             /\ FirstThenStatus(done', "syncAll")
             /\ isLoading' = FALSE
             /\ done'.calls[1].result = "err" => integrations' = integrations]_vars

C9_Witness ==
    /\ done.kind = "syncAll"
    /\ Len(done.calls) = 1
    /\ done.calls[1].result = "err"
    /\ integrations["gmail"]
    /\ ~isLoading

\* C10: the step in which fetchGoogleService(service) succeeds puts the
\* returned sequence, or the empty sequence when the payload has no data
\* field, in the slot of service, and leaves every other slot, jiraIssues,
\* jiraProjects and the IntegrationSet unchanged.
C10_FetchFrame ==
    [][(EndStep /\ done'.kind = "fetchGoogleService"
          /\ done'.calls[1].result = "ok") =>
          /\ DOMAIN googleData' = GoogleIds
          /\ googleData'[done'.id] =
                (IF done'.calls[1].data = <<>> THEN <<>>
                 ELSE done'.calls[1].data[1])
          /\ \A k \in GoogleIds \ {done'.id} : googleData'[k] = googleData[k]
          /\ UNCHANGED <<jiraIssues, jiraProjects, integrations>>]_vars

C10_Witness ==
    /\ done.kind = "fetchGoogleService"
    /\ done.calls[1].result = "ok"
    /\ done.calls[1].data = <<>>
    /\ googleData[done.id] = <<>>
    /\ \E k \in GoogleIds \ {done.id} : googleData[k] # <<>>
    /\ \E k \in Keys : integrations[k]

Fetches == {"fetchGoogleService", "fetchJiraIssues", "fetchJiraProjects"}

\* the cache slot the fetch operation o writes
Slot(o, google, issues, projects) ==
    CASE o.kind = "fetchGoogleService" -> google[o.id]
      [] o.kind = "fetchJiraIssues" -> issues
      [] o.kind = "fetchJiraProjects" -> projects

\* C11: the step in which the gateway call of a data fetch operation
\* (fetchGoogleService, fetchJiraIssues, fetchJiraProjects) fails resets the
\* cache slot of that operation to the empty sequence.
C11_FailureResetsSlot ==
    [][(EndStep /\ done'.kind \in Fetches /\ done'.calls[1].result = "err") =>
          Slot(done', googleData', jiraIssues', jiraProjects') = <<>>]_vars


\* the step ends fetchGoogleService(service) with the records fetched
Fetched(service, fetched) ==
    /\ EndStep
    /\ done'.kind = "fetchGoogleService"
    /\ done'.id = service
    /\ done'.calls[1].result = "ok"
    /\ done'.calls[1].data = <<fetched>>

\* C12: across every step, a successful, failing or malformed end of
\* fetchGoogleService included, the cache slot of each service is afterwards
\* the sequence of the response that has just succeeded for it, or what it
\* was before the step, or the empty sequence; never a mix of two responses.
C12_SlotWhole ==
    [][\A service \in GoogleIds :
          \/ googleData'[service] = googleData[service]
          \/ googleData'[service] = <<>>
          \/ Fetched(service, googleData'[service])]_vars

\* a fetch has failed after a successful one for the same service
C12_Witness ==
    /\ done.kind = "fetchGoogleService"
    /\ done.calls[1].result = "err"
    /\ googleData[done.id] = <<"a">>


\* the data field of the response that ended the operation o, or []
Returned(o) == IF o.calls[1].data = <<>> THEN <<>> ELSE o.calls[1].data[1]

\* C13: the step in which fetchJiraIssues, respectively fetchJiraProjects,
\* succeeds writes the returned sequence, or the empty sequence when the
\* payload is missing, to jiraIssues, respectively jiraProjects, and changes
\* neither the other slot, nor the per-service cache, nor the IntegrationSet.
C13_JiraFetchFrame ==
    [][/\ (EndStep /\ done'.kind = "fetchJiraIssues"
             /\ done'.calls[1].result = "ok") =>
             /\ jiraIssues' = Returned(done')
             /\ UNCHANGED <<jiraProjects, googleData, integrations>>
       /\ (EndStep /\ done'.kind = "fetchJiraProjects"
             /\ done'.calls[1].result = "ok") =>
             /\ jiraProjects' = Returned(done')
             /\ UNCHANGED <<jiraIssues, googleData, integrations>>
       /\ (EndStep /\ done'.kind = "fetchJiraIssues") =>
             UNCHANGED <<jiraProjects, googleData, integrations>>
       /\ (EndStep /\ done'.kind = "fetchJiraProjects") =>
             UNCHANGED <<jiraIssues, googleData, integrations>>]_vars

\* projects were fetched while issues were cached
C13_Witness ==
    /\ done.kind = "fetchJiraProjects"
    /\ done.calls[1].result = "ok"
    /\ done.calls[1].data = <<<<"a">>>>
    /\ jiraProjects = <<"a">>
    /\ jiraIssues = <<"b">>


\* the step invokes sendMessage
SendStep == invoked' = invoked + 1 /\ Invoked.kind = "sendMessage"

\* the step ends a sendMessage whose chat call resolved / rejected
SendOkStep ==
    EndStep /\ done'.kind = "sendMessage" /\ done'.calls[1].result = "ok"

SendErrStep ==
    EndStep /\ done'.kind = "sendMessage" /\ done'.calls[1].result = "err"

\* the response of the chat call that ended the operation o
Response(o) == o.calls[1].data[1]

\* C14: sendMessage(text) on an empty history leaves, with its chat call
\* pending, the history [user(text)] and the thread id as it was; when that
\* call resolves with the history still [user(text)] and no thread id, the
\* history becomes exactly [user(text), assistant(response message)] and the
\* thread id the one of the response.
C14_FirstExchange ==
    [][/\ (SendStep /\ messages = <<>>) =>
             /\ Len(messages') = 1
             /\ messages'[1].type = "user"
             /\ messages'[1].content = Invoked.id
             /\ LastCall(Invoked).api = "chat"
             /\ LastCall(Invoked).result = "pending"
             /\ currentThreadId' = currentThreadId
       /\ (/\ SendOkStep
           /\ Len(messages) = 1
           /\ messages[1].type = "user"
           /\ messages[1].content = done'.id
           /\ currentThreadId = <<>>) =>
             /\ Len(messages') = 2
             /\ messages'[1] = messages[1]
             /\ messages'[2].type = "assistant"
             /\ messages'[2].content = Response(done').message
             /\ currentThreadId' = <<Response(done').thread_id>>]_vars

\* the one exchange of a session: "hi" answered on thread t1
C14_Witness ==
    /\ invoked = 2
    /\ ops = <<>>
    /\ done.kind = "sendMessage"
    /\ done.id = "hi"
    /\ done.calls[1].result = "ok"
    /\ Len(messages) = 2
    /\ messages[1].type = "user" /\ messages[1].content = "hi"
    /\ messages[2].type = "assistant" /\ messages[2].content = "r1"
    /\ currentThreadId = <<"t1">>


\* C15: the step in which the chat call of sendMessage fails appends exactly
\* one assistant message with the fixed fallback content to the history as
\* it was (the user message stays), leaves the thread id unchanged, clears
\* the chat loading flag and issues no further call.
C15_ChatFailure ==
    [][SendErrStep =>
          /\ Len(messages') = Len(messages) + 1
          /\ SubSeq(messages', 1, Len(messages)) = messages
          /\ messages'[Len(messages')].type = "assistant"
          /\ messages'[Len(messages')].content = FallbackContent
          /\ currentThreadId' = currentThreadId
          /\ chatLoading' = FALSE
          /\ Len(done'.calls) = 1
          /\ Len(ops') = Len(ops) - 1
          /\ invoked' = invoked]_vars

\* a send failed on an established thread
C15_Witness ==
    /\ done.kind = "sendMessage"
    /\ done.id = "yo"
    /\ done.calls[1].result = "err"
    /\ Len(messages) = 4
    /\ messages[3].type = "user" /\ messages[3].content = "yo"
    /\ messages[4].type = "assistant" /\ messages[4].content = FallbackContent
    /\ currentThreadId = <<"t2">>
    /\ ~chatLoading


\* C16: the request of the chat call that sendMessage(text) issues carries
\* the role and the content of every message of the history at invocation, in
\* history order, then {user, text} once, and the thread id of that moment
\* (none when there is none).
C16_RequestCarriesHistory ==
    [][SendStep =>
          LET req == Invoked.req
          IN  /\ LastCall(Invoked).api = "chat"
              /\ Len(req.messages) = Len(messages) + 1
              /\ \A k \in 1..Len(messages) :
                    /\ req.messages[k].role = messages[k].type
                    /\ req.messages[k].content = messages[k].content
              /\ req.messages[Len(messages) + 1] =
                    [role |-> "user", content |-> Invoked.id]
              /\ Invoked.creds = <<>> => req.thread_id = currentThreadId]_vars

\* a request carrying one full exchange and the new text on thread t1
C16_Witness ==
    \E i \in 1..Len(ops) :
        /\ ops[i].kind = "sendMessage"
        /\ ops[i].req.messages = <<[role |-> "user", content |-> "hi"],
                                   [role |-> "assistant", content |-> "r1"],
                                   [role |-> "user", content |-> "yo"]>>
        /\ ops[i].req.thread_id = <<"t1">>


\* C17: a successful chat response stores its thread id; the stored thread id
\* changes in no other step but a clear, which makes it null; and a
\* sendMessage invoked without a thread argument passes the thread id stored
\* at that moment to the gateway: the stored one once a response has
\* succeeded and no clear has followed, none on a fresh or cleared
\* conversation.
C17_ThreadReuse ==
    [][/\ SendOkStep => currentThreadId' = <<Response(done').thread_id>>
       /\ (~SendOkStep /\ currentThreadId' # currentThreadId) =>
             /\ currentThreadId' = <<>>
             /\ messages' = <<>>
             /\ ops' = ops
       /\ (SendStep /\ Invoked.creds = <<>>) =>
             /\ LastCall(Invoked).result = "pending"
             /\ currentThreadId = <<>> => Invoked.req.thread_id = <<>>
             /\ currentThreadId # <<>> =>
                   /\ Invoked.req.thread_id = currentThreadId
                   /\ Len(Invoked.req.thread_id) = 1]_vars

\* the last response established t2 and the send in flight passes it
C17_Witness ==
    /\ done.kind = "sendMessage"
    /\ done.calls[1].result = "ok"
    /\ Response(done).thread_id = "t2"
    /\ Len(ops) = 1
    /\ ops[1].kind = "sendMessage"
    /\ ops[1].creds = <<>>
    /\ ops[1].req.thread_id = <<"t2">>
    /\ Len(ops[1].req.messages) = 3


\* the step is a clear: no operation is invoked or ended, no effect runs, and
\* the conversation changes
ClearStep ==
    /\ ops' = ops
    /\ invoked' = invoked
    /\ <<messages', currentThreadId'>> # <<messages, currentThreadId>>

\* C18: the step of clearMessages() leaves the history empty and the thread
\* id null together; no step resets one of the two and not the other.
C18_ClearTogether ==
    [][/\ ClearStep => (messages' = <<>> /\ currentThreadId' = <<>>)
       /\ (messages' = <<>> /\ messages # <<>>) => currentThreadId' = <<>>
       /\ (currentThreadId' = <<>> /\ currentThreadId # <<>>) =>
             messages' = <<>>]_vars

\* an answered conversation has been cleared
C18_Witness ==
    /\ done.kind = "sendMessage"
    /\ done.calls[1].result = "ok"
    /\ ops = <<>>
    /\ messages = <<>>
    /\ currentThreadId = <<>>


IsPrefix(s, t) == Len(s) <= Len(t) /\ SubSeq(t, 1, Len(s)) = s

\* C19: across every step that is not a clear, the history before the step
\* is a prefix of the history after it, and a step adds at most one message.
C19_AppendOnly ==
    [][~ClearStep =>
          /\ IsPrefix(messages, messages')
          /\ Len(messages') <= Len(messages) + 1]_vars

\* two sends were in flight together: both user messages, then an answer
C19_Witness ==
    /\ Len(messages) = 3
    /\ messages[1].type = "user" /\ messages[1].content = "hi"
    /\ messages[2].type = "user" /\ messages[2].content = "yo"
    /\ messages[3].type = "assistant"
    /\ Len(ops) = 1


\* C20: in every reachable state the IntegrationSet has the eight fixed keys
\* and only boolean values, whatever refresh, connect or disconnect, one
\* with an unknown id included, has run.
C20_FixedKeysPresent ==
    /\ Keys \subseteq DOMAIN integrations
    /\ \A k \in DOMAIN integrations : integrations[k] \in BOOLEAN

\* an unknown id was disconnected and a refresh has run since
C20_Witness ==
    /\ StatusOk(done)
    /\ "notion" \in DOMAIN before
    /\ ~before["notion"]
    /\ Keys \subseteq DOMAIN before
    /\ DOMAIN integrations = Keys
    /\ integrations["jira"]


\* the step mounts the coordinators
MountStep == ~mounted /\ mounted'

\* C21: the step that mounts the coordinators leaves every integration flag
\* false, every data cache and the history empty, the thread id null, and
\* exactly one operation in flight, a refreshStatus awaiting its status call,
\* whatever the session before it left behind; the step that ends a session
\* leaves no operation of it in flight.
C21_SessionStartsEmpty ==
    [][/\ MountStep =>
             /\ integrations' = [k \in Keys |-> FALSE]
             /\ integrationStatus' = <<>>
             /\ jiraIssues' = <<>>
             /\ jiraProjects' = <<>>
             /\ googleData' = [s \in GoogleIds |-> <<>>]
             /\ messages' = <<>>
             /\ currentThreadId' = <<>>
             /\ Len(ops') = 1
             /\ ops'[1].kind = "refreshStatus"
             /\ ops'[1].calls = GetStatusCall
             /\ invoked' = invoked + 1
       /\ (mounted /\ ~mounted') => ops' = <<>>]_vars

\* a second session has started after one whose send was answered
C21_Witness ==
    /\ mounted
    /\ done.kind = "sendMessage"
    /\ done.calls[1].result = "ok"
    /\ messages = <<>>
    /\ currentThreadId = <<>>
    /\ Len(ops) = 1
    /\ ops[1].kind = "refreshStatus"


\* the operations that set the shared loading flag when they are invoked
LoadingKinds == Fetches \cup {"refreshStatus", "syncAll"}

\* some operation that set the loading flag awaits its gateway call
LoadingCallPending ==
    \E i \in 1..Len(ops) :
        /\ ops[i].kind \in LoadingKinds
        /\ LastCall(ops[i]).result = "pending"

\* C22: the integration operations share one loading flag: the step that
\* invokes one sets it, and the step that ends one clears it whatever else is
\* still in flight, so the flag is false while the call of another is pending.
C22_SharedFlag ==
    [][/\ (invoked' = invoked + 1 /\ Invoked.kind \in LoadingKinds) =>
             isLoading' = TRUE
       /\ (EndStep /\ done'.kind \in LoadingKinds) => isLoading' = FALSE]_vars

\* refreshStatus has finished first while fetchJiraIssues awaits its call
C22_Witness ==
    /\ ~isLoading
    /\ done.kind = "refreshStatus"
    /\ \E i \in 1..Len(ops) :
          /\ ops[i].kind = "fetchJiraIssues"
          /\ LastCall(ops[i]).api = "getJiraData"
          /\ LastCall(ops[i]).result = "pending"
    /\ LoadingCallPending


\* the step settles the pending call of an operation and ends the operation
SettledEnd == EndStep /\ LastCall(done').result \in {"ok", "err"}

\* C23: an operation in flight leaves only when its gateway call settles, and
\* a loading flag that is true becomes false only in such a step; no step is
\* a timeout or a cancellation, so with a call that never settles and no
\* other operation completing the flag stays true.
C23_NoTimeout ==
    [][/\ Len(ops') < Len(ops) => SettledEnd
       /\ (isLoading /\ ~isLoading') =>
             (SettledEnd /\ done'.kind \in LoadingKinds \cup Refreshers)
       /\ (chatLoading /\ ~chatLoading') =>
             (SettledEnd /\ done'.kind = "sendMessage")]_vars

\* every operation the session may invoke is in flight, both flags set
C23_Witness ==
    /\ invoked = MaxOps
    /\ isLoading
    /\ chatLoading
    /\ LoadingCallPending
    /\ \E i \in 1..Len(ops) :
          ops[i].kind = "sendMessage" /\ LastCall(ops[i]).result = "pending"


\* a sendMessage awaits its chat call
SendPending ==
    \E i \in 1..Len(ops) :
        ops[i].kind = "sendMessage" /\ LastCall(ops[i]).result = "pending"

\* the number of assistant entries of a request, of assistant messages of a
\* history
Replies(entries) ==
    Cardinality({k \in 1..Len(entries) : entries[k].role = "assistant"})

Answers(history) ==
    Cardinality({k \in 1..Len(history) : history[k].type = "assistant"})

\* C24: a sendMessage invoked while another awaits its chat call issues a
\* request with the history of that moment before its own append (no reply
\* of a send still in flight is in it) and the thread id of that moment, and
\* the step that resolves the other send leaves that request as it was.
C24_OverlappingSnapshot ==
    [][/\ (SendStep /\ SendPending) =>
             /\ Len(Invoked.req.messages) = Len(messages) + 1
             /\ Replies(Invoked.req.messages) = Answers(messages)
             /\ Invoked.creds = <<>> => Invoked.req.thread_id = currentThreadId
       /\ (SendOkStep \/ SendErrStep) =>
             \A i \in 1..Len(ops') : \E j \in 1..Len(ops) : ops'[i] = ops[j]]_vars

\* the first send was answered on t1 while the second, issued before that,
\* carries neither the answer nor a thread id
C24_Witness ==
    /\ done.kind = "sendMessage"
    /\ done.calls[1].result = "ok"
    /\ currentThreadId = <<"t1">>
    /\ Len(messages) = 3
    /\ messages[3].type = "assistant"
    /\ Len(ops) = 1
    /\ ops[1].kind = "sendMessage"
    /\ ops[1].req.thread_id = <<>>
    /\ ops[1].req.messages = <<[role |-> "user", content |-> "hi"],
                               [role |-> "user", content |-> "yo"]>>


\* the message the step appends
Appended == messages'[Len(messages')]

\* C25: the id of a user message is the clock value read when it is sent and
\* the id of a reply or fallback message is the clock value read when the
\* chat call settles plus one; the clock never goes back, and nothing else
\* enters an id, so ids repeat when the clock values do.
C25_ClockIds ==
    [][/\ now' >= now
       /\ SendStep => (Appended.type = "user" /\ Appended.id = now')
       /\ (SendOkStep \/ SendErrStep) =>
             (Appended.type = "assistant" /\ Appended.id = now' + 1)]_vars

\* a reply that arrived at tick 0 and the user message sent at tick 1 have
\* the same id
C25_Witness ==
    /\ Len(messages) = 3
    /\ messages[2].type = "assistant"
    /\ messages[2].timestamp = 0
    /\ messages[3].type = "user"
    /\ messages[3].timestamp = 1
    /\ messages[2].id = messages[3].id

\* two user messages sent within one tick have the same id
C25_SameTick ==
    \E j, k \in 1..Len(messages) :
        /\ j < k
        /\ messages[j].type = "user" /\ messages[k].type = "user"
        /\ messages[j].id = messages[k].id


\* the sends in flight, as indices of ops
SendsInFlight == {i \in 1..Len(ops) : ops[i].kind = "sendMessage"}

\* the place in the history of the user message of the send o, when no clear
\* has run since o was invoked
Place(o) == Len(o.req.messages)

\* the history has the user message of the send o at its place
OwnAt(history, o) ==
    /\ Place(o) <= Len(history)
    /\ history[Place(o)].type = "user"
    /\ history[Place(o)].content = o.id

\* C26: with sends that overlap and no clear, no message is lost: every user
\* message has its reply or fallback in the history or its send in flight
\* (so k sends that have all ended grew the history by 2k), the user
\* messages of the sends in flight are in invocation order, each step of a
\* send appends one message at the end, and the reply or fallback of a send
\* lands after the user message of that send.
C26_NoMessageLost ==
    /\ [](/\ Len(messages) = 2 * Answers(messages) + Cardinality(SendsInFlight)
          /\ \A i \in SendsInFlight : OwnAt(messages, ops[i])
          /\ \A i, j \in SendsInFlight :
                i < j => Place(ops[i]) < Place(ops[j]))
    /\ [][/\ SendStep =>
                /\ messages' = Append(messages, Appended)
                /\ Appended.type = "user"
                /\ Appended.content = Invoked.id
          /\ (SendOkStep \/ SendErrStep) =>
                /\ messages' = Append(messages, Appended)
                /\ Appended.type = "assistant"
                /\ OwnAt(messages', done')
                /\ Place(done') < Len(messages')]_vars

\* two sends overlapped and ended in the other order: four messages
C26_Witness ==
    /\ ops = <<>>
    /\ done.kind = "sendMessage"
    /\ done.id = "hi"
    /\ Len(messages) = 4
    /\ messages[1].type = "user" /\ messages[1].content = "hi"
    /\ messages[2].type = "user" /\ messages[2].content = "yo"
    /\ messages[3].type = "assistant"
    /\ messages[4].type = "assistant"


\* the step empties a history that held messages
Clearing == messages # <<>> /\ messages' = <<>>

\* C27: a clear leaves the sends in flight in flight, and a send that
\* resolves on an empty history still appends its reply (or the fallback)
\* and, on success, stores the thread id of the response.
C27_ClearDoesNotCancel ==
    [][/\ Clearing => (ops' = ops /\ chatLoading' = chatLoading)
       /\ (SendOkStep /\ messages = <<>>) =>
             /\ Len(messages') = 1
             /\ messages'[1].type = "assistant"
             /\ messages'[1].content = Response(done').message
             /\ currentThreadId' = <<Response(done').thread_id>>
       /\ (SendErrStep /\ messages = <<>>) =>
             /\ Len(messages') = 1
             /\ messages'[1].type = "assistant"
             /\ messages'[1].content = FallbackContent
             /\ currentThreadId' = currentThreadId]_vars

\* the answer to a cleared send: a thread id and a history that is one
\* assistant message
C27_Witness ==
    /\ done.kind = "sendMessage"
    /\ done.calls[1].result = "ok"
    /\ currentThreadId = <<"t2">>
    /\ Len(messages) = 1
    /\ messages[1].type = "assistant"
    /\ Answers(messages) = Len(messages)


\* the records of the status response that ended the operation o
StatusReturned(o) == LastCall(o).data[1]

\* C28: whichever of the status calls in flight resolves, first issued or
\* not, the IntegrationSet after the step is the derivation of that response
\* and the stored records are that response; a status call that fails
\* changes neither.  After overlapping refreshes the set is therefore the
\* derivation of the response that arrived last.
C28_LastArrivalWins ==
    [][/\ (EndStep /\ StatusOk(done')) =>
             /\ integrations' = NewIntegrations(StatusReturned(done'))
             /\ integrationStatus' = StatusReturned(done')
       /\ (EndStep /\ StatusErr(done')) =>
             UNCHANGED <<integrations, integrationStatus>>]_vars

\* the refresh after a connect arrived first (jira), the mount refresh,
\* issued before it, arrived last (google)
C28_Witness ==
    /\ invoked = 2
    /\ ops = <<>>
    /\ done.kind = "refreshStatus"
    /\ StatusOk(done)
    /\ before["jira"] /\ before["confluence"] /\ ~before["gmail"]
    /\ integrations["gmail"] /\ ~integrations["jira"]
    /\ integrations = NewIntegrations(StatusReturned(done))


\* a local connect or disconnect toggle runs in this step
ToggleStep ==
    /\ invoked' = invoked + 1
    /\ done'.kind \in {"connectIntegration", "disconnectIntegration"}
    /\ done'.calls = <<>>

\* the step ends a fetchGoogleService call whose gateway call succeeded
GoogleFetchOkStep ==
    /\ EndStep
    /\ done'.kind = "fetchGoogleService"
    /\ done'.calls[1].result = "ok"

\* a fetchGoogleService call for another service than o's is in flight
OtherFetchPending(o) ==
    \E i \in DOMAIN ops :
        /\ ops[i].kind = "fetchGoogleService"
        /\ ops[i].id # o.id
        /\ LastCall(ops[i]).result = "pending"

\* C29: a successful fetchGoogleService stores its response in its own slot
\* and leaves every other slot as it was, other fetches in flight or not, so
\* two overlapping fetches for different services both keep their response
\* in either arrival order; a local toggle changes its own key only, and
\* neither kind of step touches the other collection.
C29_NoLostUpdate ==
    [][/\ GoogleFetchOkStep =>
             /\ googleData'[done'.id] = Returned(done')
             /\ \A other \in GoogleIds \ {done'.id} :
                    googleData'[other] = googleData[other]
             /\ UNCHANGED integrations
       /\ ToggleStep =>
             /\ integrations'[done'.id] = (done'.kind = "connectIntegration")
             /\ \A k \in DOMAIN integrations \ {done'.id} :
                    /\ k \in DOMAIN integrations'
                    /\ integrations'[k] = integrations[k]
             /\ UNCHANGED googleData]_vars

\* both fetches have ended, gmail first and calendar last, and each slot
\* holds the response of its own fetch
C29_Witness ==
    /\ invoked = MaxOps
    /\ \A i \in DOMAIN ops : ops[i].kind = "refreshStatus"
    /\ done.kind = "fetchGoogleService"
    /\ done.id = "calendar"
    /\ done.calls[1].result = "ok"
    /\ googleData["calendar"] = <<"b">>
    /\ googleData["gmail"] = <<"a">>

\* the two fetches are in flight together before either has stored anything
C29_Overlap ==
    /\ \E i \in DOMAIN ops : OtherFetchPending(ops[i])
    /\ \A service \in GoogleIds : googleData[service] = <<>>

\* C30: when the gateway settles every call, the operations in flight all
\* complete, and whenever no operation is in flight neither isLoading nor
\* the chat's isLoading is set.
C30_CompletesAndIdle ==
    /\ [](ops = <<>> => ~isLoading /\ ~chatLoading)
    /\ (ops # <<>>) ~> (ops = <<>>)

\* operations of both coordinators have run and ended, the last one of each
\* through its catch block, and both flags are down
C30_Witness ==
    /\ invoked = MaxOps
    /\ ops = <<>>
    /\ done.kind = "fetchGoogleService"
    /\ done.calls[1].result = "err"
    /\ messages # <<>>
    /\ messages[Len(messages)].type = "assistant"
    /\ ~isLoading
    /\ ~chatLoading


====
